---- MODULE Spec2Model ----
(***************************************************************************)
(* Abbreviation tracking and activation context of nova-emmet              *)
(* (src/src/abbreviation/index.ts).                                        *)
(*                                                                         *)
(* One editor: a text buffer, a caret, the change handler's remembered     *)
(* caret (lastPos), the per-editor tracker slot, the completions flag and  *)
(* the document syntax.  The structural parsers (getHTMLContext,           *)
(* getCSSContext) and the abbreviation extractor are external: each call   *)
(* draws its answer from a bounded set.                                    *)
(***************************************************************************)
EXTENDS Integers, Sequences, FiniteSets, TLC

VARIABLES content, caret, lastPos, trackers, enabled, syntax

vars == <<content, caret, lastPos, trackers, enabled, syntax>>

(***************************************************************************)
(* Bounds                                                                  *)
(***************************************************************************)
MaxLen == 2

(***************************************************************************)
(* Characters.  A buffer is a sequence of one-character strings.           *)
(***************************************************************************)
tabStop == "U+FFFC"

Letters == {"d", "p"}

WhiteSpace == {" ", "\n", "\r"}

LineBreaks == {"\r", "\n"}

\* pairs = { '{': '}', '[': ']', '(': ')' }
pairs == [o \in {"{", "[", "("} |-> CASE o = "{" -> "}" [] o = "[" -> "]" [] OTHER -> ")"]

pairsEnd == {pairs[k] : k \in DOMAIN pairs}

JSX_PREFIX == <<"<">>

Last(s) == s[Len(s)]

Max(a, b) == IF a >= b THEN a ELSE b

Min(a, b) == IF a <= b THEN a ELSE b

\* substr(editor, [from, to]): the buffer text of the half-open range
substr(text, from, to) ==
    SubSeq(text, Max(0, from) + 1, Min(Len(text), to))

\* /^[a-zA-Z.#\[\(]$/
reJSXAbbrStart(ch) == ch \in Letters \cup {".", "#", "[", "("}

\* /^[\s>;"\']?[a-zA-Z.#!@\[\(]$/
reWordBound(s) ==
    /\ Len(s) \in {1, 2}
    /\ Last(s) \in Letters \cup {".", "#", "!", "@", "[", "("}
    /\ Len(s) = 2 => s[1] \in WhiteSpace \cup {">", ";", "\"", "'"}

\* /^[\s;]?[a-zA-Z!@]$/
reStylesheetWordBound(s) ==
    /\ Len(s) \in {1, 2}
    /\ Last(s) \in Letters \cup {"!", "@"}
    /\ Len(s) = 2 => s[1] \in WhiteSpace \cup {";"}

(***************************************************************************)
(* Syntax classifier (lib/syntax)                                          *)
(***************************************************************************)
Syntaxes == {"html", "jsx", "css", "markdown"}

isJSX(syn) == syn = "jsx"

isCSS(syn) == syn \in {"css", "scss"}

isXML(syn) == syn = "xml"

isHTML(syn) == syn \in {"html", "jsx"} \/ isXML(syn)

isSupported(syn) == isHTML(syn) \/ isCSS(syn)

\* the characters typed into a document of syntax syn: a name character and
\* a line break; in markup the bracket pair, in a stylesheet the closing
\* bracket, in JSX the abbreviation prefix and the opening bracket
Chars(syn) ==
    CASE isJSX(syn) -> {"d", "(", "<"}
      [] isCSS(syn) -> {"d", ")", "\n"}
      [] isHTML(syn) -> {"d", "(", ")", "\n"}
      [] OTHER -> {"d", "\n"}

(***************************************************************************)
(* Abbreviation parser (emmet, used by the tracker module): a stand-in     *)
(* grammar of names and groups.  The result is "none" for empty text,      *)
(* "valid", or "error" with the offset of the offending character.         *)
(***************************************************************************)
NoAbbreviation == [type |-> "none"]

RECURSIVE scanAbbr(_, _, _)
scanAbbr(text, i, depth) ==
    IF i > Len(text)
    THEN IF depth > 0 THEN i - 1 ELSE -1
    ELSE LET ch == text[i] IN
         CASE ch \in Letters \cup {".", "#"} -> scanAbbr(text, i + 1, depth)
           [] ch = "(" -> scanAbbr(text, i + 1, depth + 1)
           [] ch = ")" ->
                IF depth = 0 \/ text[i - 1] = "("
                THEN i - 1
                ELSE scanAbbr(text, i + 1, depth - 1)
           [] OTHER -> i - 1

parseAbbr(text) ==
    IF Len(text) = 0
    THEN NoAbbreviation
    ELSE LET e == scanAbbr(text, 1, 0) IN
         IF e < 0
         THEN [type |-> "valid", abbr |-> text]
         ELSE [type |-> "error", abbr |-> text, pos |-> e]

(***************************************************************************)
(* Tracker module (./AbbreviationTracker): the per-editor slot             *)
(***************************************************************************)
NoOptions == [type |-> "none"]

newTracker(text, start, end, offset, options, forced) ==
    [range |-> <<start, end>>,
     forced |-> forced,
     offset |-> offset,
     abbreviation |-> parseAbbr(substr(text, start + offset, end)),
     options |-> options,
     lastLength |-> Len(text)]

\* startTracking(editor, start, end, {offset, options, forced}): the new
\* tracker takes the editor's slot, whatever the slot held
startTracking(store, text, start, end, offset, options, forced) ==
    {newTracker(text, start, end, offset, options, forced)}

\* stopTracking(editor)
stopTracking(store) == {}

\* handleChange(editor): the tracked span follows the buffer's length; an
\* empty span has nothing left to extract
handleChange(store, text) ==
    IF store = {}
    THEN {}
    ELSE LET t == CHOOSE x \in store : TRUE
             end == t.range[2] + (Len(text) - t.lastLength)
         IN  IF end <= t.range[1] + t.offset
             THEN stopTracking(store)
             ELSE {[t EXCEPT !.range = <<t.range[1], end>>,
                             !.abbreviation =
                                 parseAbbr(substr(text, t.range[1] + t.offset, end)),
                             !.lastLength = Len(text)]}

(***************************************************************************)
(* shouldStopTracking                                                      *)
(***************************************************************************)
\* abbr[i] of a JavaScript string: undefined outside the string
charAt(s, i) == IF i >= 0 /\ i < Len(s) THEN s[i + 1] ELSE "undefined"

includes(s, ch) == \E i \in 1..Len(s) : s[i] = ch

hasLineBreak(s) == \E i \in 1..Len(s) : s[i] \in LineBreaks

RECURSIVE walkPairsEnd(_, _, _)
walkPairsEnd(abbr, start, targetPos) ==
    IF targetPos > start /\ charAt(abbr, targetPos - start - 1) \in pairsEnd
    THEN walkPairsEnd(abbr, start, targetPos - 1)
    ELSE targetPos

\* shouldStopTracking without the walk over the closing brackets
shouldStopTrackingNoWalk(tracker, pos) ==
    IF tracker.forced THEN FALSE
    ELSE IF tracker.abbreviation.type = "none" THEN TRUE
    ELSE LET abbr == tracker.abbreviation.abbr IN
         IF hasLineBreak(abbr) \/ includes(abbr, tabStop) THEN TRUE
         ELSE IF tracker.abbreviation.type = "error"
              THEN IF tracker.range[2] = pos THEN TRUE
                   ELSE IF tracker.abbreviation.pos = 0 THEN TRUE
                   ELSE tracker.range[2] = pos
              ELSE FALSE

\* shouldStopTracking with the missing-abbreviation test moved before the
\* forced test
shouldStopTrackingForcedLate(tracker, pos) ==
    IF tracker.abbreviation.type = "none" THEN TRUE
    ELSE IF tracker.forced THEN FALSE
    ELSE LET abbr == tracker.abbreviation.abbr IN
         IF hasLineBreak(abbr) \/ includes(abbr, tabStop) THEN TRUE
         ELSE IF tracker.abbreviation.type = "error"
              THEN IF tracker.range[2] = pos THEN TRUE
                   ELSE IF tracker.abbreviation.pos = 0 THEN TRUE
                   ELSE walkPairsEnd(abbr, tracker.range[1], tracker.range[2]) = pos
              ELSE FALSE

\* shouldStopTracking without the tab-stop test
shouldStopTrackingNoTabStop(tracker, pos) ==
    IF tracker.forced THEN FALSE
    ELSE IF tracker.abbreviation.type = "none" THEN TRUE
    ELSE LET abbr == tracker.abbreviation.abbr IN
         IF hasLineBreak(abbr) THEN TRUE
         ELSE IF tracker.abbreviation.type = "error"
              THEN IF tracker.range[2] = pos THEN TRUE
                   ELSE IF tracker.abbreviation.pos = 0 THEN TRUE
                   ELSE walkPairsEnd(abbr, tracker.range[1], tracker.range[2]) = pos
              ELSE FALSE

shouldStopTracking(tracker, pos) ==
    IF tracker.forced THEN FALSE
    ELSE IF tracker.abbreviation.type = "none" THEN TRUE
    ELSE LET abbr == tracker.abbreviation.abbr IN
         IF hasLineBreak(abbr) \/ includes(abbr, tabStop) THEN TRUE
         ELSE IF tracker.abbreviation.type = "error"
              THEN IF tracker.range[2] = pos THEN TRUE
                   ELSE IF tracker.abbreviation.pos = 0 THEN TRUE
                   ELSE walkPairsEnd(abbr, tracker.range[1], tracker.range[2]) = pos
              ELSE FALSE

(***************************************************************************)
(* Activation context (getActivationContext and its helpers)               *)
(***************************************************************************)
NoToken == [type |-> "none"]

NoContext == [kind |-> "none"]

\* CSSAbbreviationScope of emmet
ScopeGlobal == "@@global"

ScopeSection == "@@section"

last(arr) == IF Len(arr) > 0 THEN <<arr[Len(arr)]>> ELSE <<>>

\* attributeValue(attr) (lib/utils): the raw value without its quotes,
\* undefined (the empty sequence here) for a value-less attribute
attributeValue(attr) ==
    IF attr.value = <<>> THEN <<>> ELSE <<attr.value[1].text>>

\* the loop of getMarkupAbbreviationContext: a later attribute of the same
\* name overwrites an earlier one; attributeValue(attr) || ''
attrsMap(attrs) ==
    [n \in {attrs[i].name : i \in 1..Len(attrs)} |->
        LET i == CHOOSE k \in 1..Len(attrs) :
                     /\ attrs[k].name = n
                     /\ \A m \in (k + 1)..Len(attrs) : attrs[m].name # n
            v == attributeValue(attrs[i])
        IN  IF v = <<>> \/ v[1] = "" THEN "" ELSE v[1]]

\* getMarkupAbbreviationContext that reads the outermost ancestor
getMarkupAbbreviationContextOutermost(ctx) ==
    IF Len(ctx.ancestors) > 0
    THEN [kind |-> "markup", name |-> ctx.ancestors[1].name,
          attributes |-> attrsMap(ctx.ancestors[1].attrs)]
    ELSE NoContext

getMarkupAbbreviationContext(ctx) ==
    LET parent == last(ctx.ancestors) IN
    IF parent # <<>>
    THEN [kind |-> "markup", name |-> parent[1].name,
          attributes |-> attrsMap(parent[1].attrs)]
    ELSE NoContext

getEmbeddedStyleSyntax(ctx) ==
    LET parent == last(ctx.ancestors) IN
    IF parent # <<>> /\ parent[1].name = "style"
       /\ \E i \in 1..Len(parent[1].attrs) : parent[1].attrs[i].name = "type"
    THEN LET i == CHOOSE k \in 1..Len(parent[1].attrs) :
                      /\ parent[1].attrs[k].name = "type"
                      /\ \A m \in 1..(k - 1) : parent[1].attrs[m].name # "type"
         IN  attributeValue(parent[1].attrs[i])
    ELSE <<>>

\* String.prototype.trim, and the text before the first line break
RECURSIVE trimLeft(_)
trimLeft(s) ==
    IF Len(s) > 0 /\ s[1] \in WhiteSpace THEN trimLeft(Tail(s)) ELSE s

RECURSIVE trimRight(_)
trimRight(s) ==
    IF Len(s) > 0 /\ s[Len(s)] \in WhiteSpace
    THEN trimRight(SubSeq(s, 1, Len(s) - 1))
    ELSE s

trim(s) == trimRight(trimLeft(s))

RECURSIVE firstLine(_)
firstLine(s) ==
    IF Len(s) = 0 \/ s[1] \in LineBreaks
    THEN <<>>
    ELSE <<s[1]>> \o firstLine(Tail(s))

\* isTypingBeforeSelector that does not ask where the selector starts
isTypingBeforeSelectorAnyStart(text, pos, ctx) ==
    IF ctx.current.type = "selector"
    THEN Len(trim(firstLine(substr(text, ctx.current.range[1],
                                   ctx.current.range[2])))) = 1
    ELSE FALSE

isTypingBeforeSelector(text, pos, ctx) ==
    IF ctx.current.type = "selector" /\ ctx.current.range[1] = pos - 1
    THEN Len(trim(firstLine(substr(text, ctx.current.range[1],
                                   ctx.current.range[2])))) = 1
    ELSE FALSE

\* getCSSAbbreviationContext that gives the section scope to a selector with
\* an ancestor
getCSSAbbreviationContextNested(ctx) ==
    LET parent == last(ctx.ancestors) IN
    IF ctx.current.type = "propertyValue" /\ parent # <<>>
    THEN parent[1].name
    ELSE IF ctx.current.type = "selector" /\ parent # <<>>
         THEN ScopeSection
         ELSE ScopeGlobal

getCSSAbbreviationContext(ctx) ==
    LET parent == last(ctx.ancestors) IN
    IF ctx.current.type = "propertyValue" /\ parent # <<>>
    THEN parent[1].name
    ELSE IF ctx.current.type = "selector" /\ parent = <<>>
         THEN ScopeSection
         ELSE ScopeGlobal

getCSSActivationContext(text, pos, syn, ctx) ==
    IF ctx.current = NoToken
    THEN NoOptions
    ELSE IF \/ ctx.current.type = "propertyName"
            \/ ctx.current.type = "propertyValue"
            \/ isTypingBeforeSelector(text, pos, ctx)
         THEN [syntax |-> syn,
               type |-> "stylesheet",
               context |-> [kind |-> "stylesheet",
                            name |-> getCSSAbbreviationContext(ctx)],
               options |-> [inline |-> ctx.inline]]
         ELSE NoOptions

\* getActivationContext that takes every syntax that is not a stylesheet for
\* markup
getActivationContextAnySyntax(text, pos, syn, oracle) ==
    IF isCSS(syn)
    THEN getCSSActivationContext(text, pos, syn, oracle.css)
    ELSE LET ctx == oracle.html IN
         IF ctx.css # <<>>
         THEN LET embedded == getEmbeddedStyleSyntax(ctx) IN
              getCSSActivationContext(text, pos,
                  IF embedded = <<>> \/ embedded[1] = ""
                  THEN syn ELSE embedded[1],
                  ctx.css[1])
         ELSE IF ~ctx.current
              THEN [syntax |-> syn,
                    type |-> "markup",
                    context |-> getMarkupAbbreviationContext(ctx),
                    options |-> [inline |-> FALSE]]
              ELSE NoOptions

\* oracle.css answers getCSSContext(content, pos), oracle.html answers
\* getHTMLContext(content, pos, {xml})
getActivationContext(text, pos, syn, oracle) ==
    IF isCSS(syn)
    THEN getCSSActivationContext(text, pos, syn, oracle.css)
    ELSE IF isHTML(syn)
         THEN LET ctx == oracle.html IN
              IF ctx.css # <<>>
              THEN LET embedded == getEmbeddedStyleSyntax(ctx) IN
                   getCSSActivationContext(text, pos,
                       IF embedded = <<>> \/ embedded[1] = ""
                       THEN syn ELSE embedded[1],
                       ctx.css[1])
              ELSE IF ~ctx.current
                   THEN [syntax |-> syn,
                         type |-> "markup",
                         context |-> getMarkupAbbreviationContext(ctx),
                         options |-> [inline |-> FALSE]]
                   ELSE NoOptions
         ELSE NoOptions

(***************************************************************************)
(* Boundary detector and the editor's handlers                             *)
(***************************************************************************)
\* the result of a start attempt: the tracker returned (none: the empty
\* set) and the editor's slot afterwards
NoStart(store) == [ret |-> {}, store |-> store]

\* candidateSpan that never takes the closer in
candidateSpanNoAbsorb(text, pos, syn) ==
    LET prefix == substr(text, Max(0, pos - 2), pos)
        jsx    == /\ isJSX(syn)
                  /\ Len(prefix) = 2
                  /\ <<prefix[1]>> = JSX_PREFIX
                  /\ reJSXAbbrStart(prefix[2])
        start  == IF isJSX(syn)
                  THEN IF jsx THEN pos - 2 ELSE -1
                  ELSE IF reWordBound(prefix) THEN pos - 1 ELSE -1
        offset == IF jsx THEN Len(JSX_PREFIX) ELSE 0
    IN  [start |-> start, end |-> pos, offset |-> offset]

\* candidateSpan that starts a JSX span after the prefix
candidateSpanJsxAfterPrefix(text, pos, syn) ==
    LET prefix == substr(text, Max(0, pos - 2), pos)
        jsx    == /\ isJSX(syn)
                  /\ Len(prefix) = 2
                  /\ <<prefix[1]>> = JSX_PREFIX
                  /\ reJSXAbbrStart(prefix[2])
        start  == IF isJSX(syn)
                  THEN IF jsx THEN pos - 1 ELSE -1
                  ELSE IF reWordBound(prefix) THEN pos - 1 ELSE -1
        offset == IF jsx THEN Len(JSX_PREFIX) ELSE 0
    IN  IF start >= 0
        THEN LET lastCh == prefix[Len(prefix)] IN
             [start |-> start,
              end |-> IF /\ lastCh \in DOMAIN pairs
                         /\ substr(text, pos, pos + 1) = <<pairs[lastCh]>>
                      THEN pos + 1 ELSE pos,
              offset |-> offset]
        ELSE [start |-> start, end |-> pos, offset |-> offset]

\* candidateSpan that takes the closer for granted after an opening bracket
candidateSpanNoCloserCheck(text, pos, syn) ==
    LET prefix == substr(text, Max(0, pos - 2), pos)
        jsx    == /\ isJSX(syn)
                  /\ Len(prefix) = 2
                  /\ <<prefix[1]>> = JSX_PREFIX
                  /\ reJSXAbbrStart(prefix[2])
        start  == IF isJSX(syn)
                  THEN IF jsx THEN pos - 2 ELSE -1
                  ELSE IF reWordBound(prefix) THEN pos - 1 ELSE -1
        offset == IF jsx THEN Len(JSX_PREFIX) ELSE 0
    IN  IF start >= 0
        THEN LET lastCh == prefix[Len(prefix)] IN
             [start |-> start,
              end |-> IF lastCh \in DOMAIN pairs THEN pos + 1 ELSE pos,
              offset |-> offset]
        ELSE [start |-> start, end |-> pos, offset |-> offset]

\* the first half of startAbbreviationTracking: the candidate span read
\* off the two characters before the caret (start = -1: no candidate)
candidateSpan(text, pos, syn) ==
    LET prefix == substr(text, Max(0, pos - 2), pos)
        jsx    == /\ isJSX(syn)
                  /\ Len(prefix) = 2
                  /\ <<prefix[1]>> = JSX_PREFIX
                  /\ reJSXAbbrStart(prefix[2])
        start  == IF isJSX(syn)
                  THEN IF jsx THEN pos - 2 ELSE -1
                  ELSE IF reWordBound(prefix) THEN pos - 1 ELSE -1
        offset == IF jsx THEN Len(JSX_PREFIX) ELSE 0
    IN  IF start >= 0
        THEN LET lastCh == prefix[Len(prefix)] IN
             [start |-> start,
              end |-> IF /\ lastCh \in DOMAIN pairs
                         /\ substr(text, pos, pos + 1) = <<pairs[lastCh]>>
                      THEN pos + 1 ELSE pos,
              offset |-> offset]
        ELSE [start |-> start, end |-> pos, offset |-> offset]

\* startAbbreviationTracking without the stricter test for a stylesheet
\* context
startAbbreviationTrackingMarkupTestOnly(store, text, pos, syn, oracle) ==
    LET span == candidateSpan(text, pos, syn)
    IN  IF span.start >= 0
        THEN LET options == getActivationContext(text, pos, syn, oracle) IN
             IF options # NoOptions
             THEN LET slot == startTracking(store, text, span.start, span.end,
                                            span.offset, options, FALSE)
                  IN  [ret |-> slot, store |-> slot]
             ELSE NoStart(store)
        ELSE NoStart(store)

\* startAbbreviationTracking that creates the tracker before it asks for the
\* activation context
startAbbreviationTrackingAnyContext(store, text, pos, syn, oracle) ==
    LET span == candidateSpan(text, pos, syn)
    IN  IF span.start >= 0
        THEN LET slot == startTracking(store, text, span.start, span.end, span.offset,
                                       getActivationContext(text, pos, syn, oracle),
                                       FALSE)
             IN  [ret |-> slot, store |-> slot]
        ELSE NoStart(store)

startAbbreviationTracking(store, text, pos, syn, oracle) ==
    LET prefix == substr(text, Max(0, pos - 2), pos)
        span   == candidateSpan(text, pos, syn)
    IN  IF span.start >= 0
        THEN LET options == getActivationContext(text, pos, syn, oracle) IN
             IF options # NoOptions
             THEN IF options.type = "stylesheet" /\ ~reStylesheetWordBound(prefix)
                  THEN NoStart(store)
                  ELSE LET slot == startTracking(store, text, span.start, span.end,
                                                 span.offset, options, FALSE)
                       IN  [ret |-> slot, store |-> slot]
             ELSE NoStart(store)
        ELSE NoStart(store)

isEnabled(en) == en

\* allowTracking that does not read the configuration
allowTrackingAnyConfig(en, syn) == isSupported(syn) \/ isJSX(syn)

allowTracking(en, syn) ==
    IF isEnabled(en) THEN isSupported(syn) \/ isJSX(syn) ELSE FALSE

\* onDidChange that applies shouldStopTracking to a tracker it has just
\* started only
onDidChangeStopsNewOnly(store, lp, text, pos, en, syn, oracle) ==
    LET changed == handleChange(store, text)
        started == IF /\ changed = {}
                      /\ lp # <<>>
                      /\ lp[1] = pos - 1
                      /\ allowTracking(en, syn)
                   THEN startAbbreviationTracking(changed, text, pos, syn, oracle)
                   ELSE [ret |-> changed, store |-> changed]
        tracker == started.ret
    IN  [typed |-> changed = {} /\ tracker # {},
         store |-> IF /\ changed = {}
                      /\ tracker # {}
                      /\ shouldStopTracking(CHOOSE t \in tracker : TRUE, pos)
                   THEN stopTracking(started.store)
                   ELSE started.store]

\* onDidChange that does not compare the caret with the remembered one
onDidChangeAnyCaret(store, lp, text, pos, en, syn, oracle) ==
    LET changed == handleChange(store, text)
        started == IF changed = {} /\ allowTracking(en, syn)
                   THEN startAbbreviationTracking(changed, text, pos, syn, oracle)
                   ELSE [ret |-> changed, store |-> changed]
        tracker == started.ret
    IN  [typed |-> changed = {} /\ tracker # {},
         store |-> IF tracker # {}
                      /\ shouldStopTracking(CHOOSE t \in tracker : TRUE, pos)
                   THEN stopTracking(started.store)
                   ELSE started.store]

\* the onDidChange callback: [typed: a tracker was started by typing,
\* store: the editor's slot when the callback returns]
onDidChange(store, lp, text, pos, en, syn, oracle) ==
    LET changed == handleChange(store, text)
        started == IF /\ changed = {}
                      /\ lp # <<>>
                      /\ lp[1] = pos - 1
                      /\ allowTracking(en, syn)
                   THEN startAbbreviationTracking(changed, text, pos, syn, oracle)
                   ELSE [ret |-> changed, store |-> changed]
        tracker == started.ret
    IN  [typed |-> changed = {} /\ tracker # {},
         store |-> IF tracker # {}
                      /\ shouldStopTracking(CHOOSE t \in tracker : TRUE, pos)
                   THEN stopTracking(started.store)
                   ELSE started.store]

\* onDidChangeSelection that does not read the configuration
onDidChangeSelectionAnyConfig(lp, pos, en) == <<pos>>

\* the onDidChangeSelection callback: the remembered caret afterwards
onDidChangeSelection(lp, pos, en) ==
    IF isEnabled(en) THEN <<pos>> ELSE lp

\* extractTracker that leaves a tracker the editor already has in place
extractTrackerKeepsOld(store, text, syn, abbr, oracle) ==
    LET prefix == IF isJSX(syn) THEN JSX_PREFIX ELSE <<>> IN
    IF abbr # <<>> /\ store = {}
    THEN startTracking(store, text, abbr[1].start, abbr[1].end, Len(prefix),
                       getActivationContext(text, abbr[1].start + 1, syn, oracle),
                       FALSE)
    ELSE store

\* extractTracker(editor, ctx); abbr answers extract(content, ctx.position,
\* syntax, {prefix}): none (the empty sequence) or <<[start, end]>>
extractTracker(store, text, syn, abbr, oracle) ==
    LET prefix == IF isJSX(syn) THEN JSX_PREFIX ELSE <<>> IN
    IF abbr # <<>>
    THEN startTracking(store, text, abbr[1].start, abbr[1].end, Len(prefix),
                       getActivationContext(text, abbr[1].start + 1, syn, oracle),
                       FALSE)
    ELSE store

(***************************************************************************)
(* Answers of the external structural parsers and of the extractor         *)
(***************************************************************************)
DivTag ==
    [name |-> "div",
     attrs |-> <<[name |-> "class", value |-> <<[quoted |-> TRUE, text |-> "x"]>>],
                 [name |-> "hidden", value |-> <<>>]>>]

StyleTag ==
    [name |-> "style",
     attrs |-> <<[name |-> "type", value |-> <<[quoted |-> TRUE, text |-> "scss"]>>]>>]

Ranges(n) == {r \in (0..n) \X (0..n) : r[1] <= r[2]}

\* tokens under pos: a selector token starts one or two characters back
\* and ends at the caret or at the end of the buffer
CSSTokens(n, pos) ==
    {[type |-> "propertyValue", range |-> <<0, n>>]}
    \cup {[type |-> "selector", range |-> r] :
            r \in {x \in Ranges(n) : x[1] \in {pos - 1, pos - 2} /\ x[2] \in {pos, n}}}

CSSContexts(n, pos) ==
    {[current |-> c, ancestors |-> a, inline |-> FALSE] :
        c \in CSSTokens(n, pos), a \in {<<>>, <<[name |-> "color"]>>}}
    \cup {[current |-> c, ancestors |-> <<>>, inline |-> FALSE] :
        c \in {NoToken, [type |-> "blockEnd", range |-> <<0, n>>]}}
    \cup {[current |-> [type |-> "propertyName", range |-> <<0, n>>],
           ancestors |-> <<[name |-> "a"]>>, inline |-> FALSE]}

EmbeddedCSS(n) ==
    {[current |-> c, ancestors |-> <<[name |-> "color"]>>, inline |-> FALSE] :
        c \in {NoToken, [type |-> "propertyValue", range |-> <<0, n>>]}}

HTMLContexts(n) ==
    {[current |-> cur, ancestors |-> a, css |-> <<>>] :
        cur \in BOOLEAN, a \in {<<>>, <<DivTag>>}}
    \cup {[current |-> FALSE, ancestors |-> <<StyleTag>>, css |-> <<c>>] :
            c \in EmbeddedCSS(n)}

NoCSSContext == [current |-> NoToken, ancestors |-> <<>>, inline |-> FALSE]

NoHTMLContext == [current |-> FALSE, ancestors |-> <<>>, css |-> <<>>]

\* what the parsers can answer at pos for a buffer of length n in a document
\* of syntax syn (only the parser of the document's syntax is asked)
Oracles(syn, n, pos) ==
    IF isCSS(syn)
    THEN {[css |-> c, html |-> NoHTMLContext] : c \in CSSContexts(n, pos)}
    ELSE IF isHTML(syn)
         THEN {[css |-> NoCSSContext, html |-> h] : h \in HTMLContexts(n)}
         ELSE {[css |-> NoCSSContext, html |-> NoHTMLContext]}

PlainOracle(n) ==
    [css |-> [current |-> [type |-> "propertyName", range |-> <<0, n>>],
              ancestors |-> <<[name |-> "a"]>>, inline |-> FALSE],
     html |-> NoHTMLContext]

\* extract(): nothing, or a span of the buffer that holds the prefix and at
\* least one more character and ends at pos or one character after it
Extracts(n, pos, offset) ==
    {<<>>} \cup {<<[start |-> r[1], end |-> r[2]]>> :
                    r \in {x \in Ranges(n) : x[1] + offset < x[2]
                                             /\ x[1] <= pos
                                             /\ x[2] \in {pos, pos + 1}}}

Texts(syn, n) == UNION {[1..k -> Chars(syn)] : k \in 0..n}

insertAt(text, pos, ch) ==
    SubSeq(text, 1, pos) \o <<ch>> \o SubSeq(text, pos + 1, Len(text))

removeAt(text, pos) ==
    SubSeq(text, 1, pos - 1) \o SubSeq(text, pos + 1, Len(text))

(***************************************************************************)
(* The editor                                                              *)
(***************************************************************************)
Init ==
    /\ syntax \in Syntaxes
    /\ content \in Texts(syntax, MaxLen)
    /\ caret \in 0..Len(content)
    /\ lastPos = <<>>
    /\ trackers = {}
    /\ enabled \in BOOLEAN

\* the parsers answer only when asked: the change handler asks when it has a
\* candidate span to start on
AskedBy(store, lp, text, pos, en, syn) ==
    IF /\ handleChange(store, text) = {}
       /\ lp = <<pos - 1>>
       /\ allowTracking(en, syn)
       /\ candidateSpan(text, pos, syn).start >= 0
    THEN Oracles(syn, Len(text), pos)
    ELSE {[css |-> NoCSSContext, html |-> NoHTMLContext]}

Asked(text, pos) == AskedBy(trackers, lastPos, text, pos, enabled, syntax)

\* the onDidChange callback on a buffer that now reads text, caret at pos
Changed(text, pos) ==
    /\ content' = text
    /\ caret' = pos
    /\ trackers' \in {onDidChange(trackers, lastPos, text, pos, enabled, syntax, oracle).store :
                        oracle \in Asked(text, pos)}
    /\ lastPos' = <<pos>>
    /\ UNCHANGED <<enabled, syntax>>

\* the buffers and carets a change event can find from this state
ChangeEvents ==
    {[text |-> content, pos |-> caret]}
    \cup {[text |-> removeAt(content, caret), pos |-> caret - 1] : x \in {1} \cap (1..caret)}
    \cup {[text |-> insertAt(content, caret, ch), pos |-> caret + 1] :
            ch \in {c \in Chars(syntax) : Len(content) < MaxLen}}

InsertChar ==
    /\ Len(content) < MaxLen
    /\ \E ch \in Chars(syntax) : Changed(insertAt(content, caret, ch), caret + 1)

DeleteChar ==
    /\ caret > 0
    /\ Changed(removeAt(content, caret), caret - 1)

\* a change event that finds the buffer and the caret where they were
ChangeAgain ==
    Changed(content, caret)

MoveCaret ==
    \E pos \in 0..Len(content) :
        /\ caret' = pos
        /\ lastPos' = onDidChangeSelection(lastPos, pos, enabled)
        /\ UNCHANGED <<content, trackers, enabled, syntax>>

SetConfig ==
    /\ enabled' = ~enabled
    /\ UNCHANGED <<content, caret, lastPos, trackers, syntax>>

\* a completion request at the caret
ExtractTracker ==
    /\ trackers' \in
         {extractTracker(trackers, content, syntax, abbr, oracle) :
            abbr \in Extracts(Len(content), caret,
                              IF isJSX(syntax) THEN Len(JSX_PREFIX) ELSE 0),
            oracle \in Oracles(syntax, Len(content), caret)}
    /\ UNCHANGED <<content, caret, lastPos, enabled, syntax>>

\* a command that tracks the text up to the caret: startTracking, forced,
\* with the context of plain text (markup) or of a property name (stylesheet)
ForcedStart ==
    /\ trackers' \in
         {startTracking(trackers, content, start, caret, 0,
                        getActivationContext(content, caret, syntax, PlainOracle(Len(content))),
                        TRUE) :
            start \in 0..caret}
    /\ UNCHANGED <<content, caret, lastPos, enabled, syntax>>

\* a clear-marker callback that leaves a forced tracker alone
clearMarkerUnlessForced(store) == {t \in store : t.forced}

\* the callback registered for emmet.clear-marker: stopTracking itself
clearMarker(store) == stopTracking(store)

\* the callback registered with editor.onDidDestroy: stopTracking itself
onDidDestroy(store) == stopTracking(store)

\* the emmet.clear-marker command
ClearMarker ==
    /\ trackers' = clearMarker(trackers)
    /\ UNCHANGED <<content, caret, lastPos, enabled, syntax>>

\* the editor is destroyed
DestroyEditor ==
    /\ trackers' = onDidDestroy(trackers)
    /\ UNCHANGED <<content, caret, lastPos, enabled, syntax>>

Next ==
    \/ InsertChar
    \/ DeleteChar
    \/ ChangeAgain
    \/ MoveCaret
    \/ SetConfig
    \/ ExtractTracker
    \/ ForcedStart
    \/ ClearMarker
    \/ DestroyEditor

Spec == Init /\ [][Next]_vars

\* the change handler reaches the structural parsers (line 125): the editor
\* is idle after handleChange, the caret moved one forward, tracking is
\* allowed and the prefix window gives a candidate span
queriesParser(store, lp, text, pos, en, syn) ==
    /\ handleChange(store, text) = {}
    /\ lp = <<pos - 1>>
    /\ allowTracking(en, syn)
    /\ candidateSpan(text, pos, syn).start >= 0

\* the onDidChange callback when getCSSContext or getHTMLContext throws:
\* nothing between line 204 or 209 and the callback catches, so the callback
\* is left at line 39 with the exception and lines 42-46 do not run
onDidChangeThrows(store, lp, text, pos, en, syn) ==
    [thrown |-> TRUE, store |-> handleChange(store, text), lastPos |-> lp]

\* a change event whose parser query throws
ChangeThrows ==
    \E e \in ChangeEvents :
        /\ queriesParser(trackers, lastPos, e.text, e.pos, enabled, syntax)
        /\ LET r == onDidChangeThrows(trackers, lastPos, e.text, e.pos, enabled, syntax) IN
           /\ content' = e.text
           /\ caret' = e.pos
           /\ trackers' = r.store
           /\ lastPos' = r.lastPos
        /\ UNCHANGED <<enabled, syntax>>

NextThrow == Next \/ ChangeThrows

\* the editor with structural parsers that may throw
SpecThrow == Init /\ [][NextThrow]_vars

(***************************************************************************)
(* Properties of the editor (Spec)                                         *)
(***************************************************************************)
InRange(r, n) == 0 <= r[1] /\ r[1] <= r[2] /\ r[2] <= n

\* C3: a tracker's range satisfies 0 <= range[0] <= range[1] <= len(content),
\* and so does every candidate span of a typed start (start = pos-1 or pos-2,
\* end = pos or pos+1), whatever the buffer and the caret.
C3_RangeWithinBuffer ==
    /\ \A t \in trackers : InRange(t.range, Len(content))
    /\ \A pos \in 0..Len(content) :
          LET span == candidateSpan(content, pos, syntax) IN
          span.start >= 0 =>
              /\ span.start \in {pos - 1, pos - 2}
              /\ span.end \in {pos, pos + 1}
              /\ InRange(<<span.start, span.end>>, Len(content))

\* a tracker started by typing the last character of the buffer
C3_Witness ==
    /\ caret = Len(content)
    /\ lastPos = <<caret>>
    /\ candidateSpan(content, caret, syntax).start = caret - 1
    /\ \E t \in trackers : ~t.forced /\ t.range = <<caret - 1, caret>>

\* C4: the editor holds zero or one tracker, and a start through
\* extractTracker while a tracker exists leaves exactly the new tracker.
C4_AtMostOneTracker ==
    /\ Cardinality(trackers) <= 1
    /\ \A abbr \in Extracts(Len(content), caret,
                            IF isJSX(syntax) THEN Len(JSX_PREFIX) ELSE 0) \ {<<>>} :
       \A oracle \in {[css |-> NoCSSContext, html |-> NoHTMLContext],
                      PlainOracle(Len(content))} :
          LET slot == extractTracker(trackers, content, syntax, abbr, oracle) IN
          /\ Cardinality(slot) = 1
          /\ \A t \in slot : t.range = <<abbr[1].start, abbr[1].end>> /\ ~t.forced

\* a forced tracker is in place where extractTracker has a different span
C4_Witness ==
    \E t \in trackers :
        /\ t.forced
        /\ \E abbr \in Extracts(Len(content), caret,
                                IF isJSX(syntax) THEN Len(JSX_PREFIX) ELSE 0) \ {<<>>} :
              t.range # <<abbr[1].start, abbr[1].end>>

HtmlTag == [name |-> "html", attrs |-> <<>>]

\* getHTMLContext between the tags of <div class="x"></div>
BetweenDivTags ==
    [css |-> NoCSSContext,
     html |-> [current |-> FALSE, ancestors |-> <<HtmlTag, DivTag>>, css |-> <<>>]]

\* <div class="x">p</div>, the caret after the p
DivBuffer ==
    <<"<", "d", "i", "v", " ", "c", "l", "a", "s", "s", "=", "\"", "x", "\"", ">",
      "p", "<", "/", "d", "i", "v", ">">>

DivTracker(t, pos) ==
    /\ t.range = <<pos - 1, pos>>
    /\ t.offset = 0
    /\ ~t.forced
    /\ t.options # NoOptions
    /\ t.options.type = "markup"
    /\ t.options.context.kind = "markup"
    /\ t.options.context.name = "div"
    /\ t.options.context.attributes["class"] = "x"

\* C9: in an HTML document, a name character typed between the tags of
\* <div class="x"></div> as a simple forward insertion, completions enabled,
\* leaves a tracker of length 1 at [pos-1, pos), offset 0, with a markup context
\* named after the nearest open ancestor ("div") and its attributes (class =
\* "x"): both in that very buffer and in every reachable idle buffer where the
\* character lands on a word boundary.
C9_TypedBetweenDivTags ==
    /\ LET r == onDidChange({}, <<15>>, DivBuffer, 16, TRUE, "html", BetweenDivTags) IN
       /\ r.typed
       /\ Cardinality(r.store) = 1
       /\ \A t \in r.store : DivTracker(t, 16)
    /\ (syntax = "html" /\ Len(content) < MaxLen) =>
          \A ch \in Letters :
             LET text == insertAt(content, caret, ch)
                 pos  == caret + 1
                 r    == onDidChange(trackers, <<caret>>, text, pos, TRUE, syntax,
                                     BetweenDivTags)
             IN  (handleChange(trackers, text) = {}
                  /\ (caret = 0 \/ content[caret] \in WhiteSpace \cup {">", ";", "\"", "'"}))
                 => /\ r.typed
                    /\ Cardinality(r.store) = 1
                    /\ \A t \in r.store : DivTracker(t, pos)

\* the tracker a typed name character left, with the div's context
C9_Witness ==
    /\ syntax = "html"
    /\ enabled
    /\ lastPos = <<caret>>
    /\ caret >= 1
    /\ content[caret] \in Letters
    /\ \E t \in trackers :
          /\ DivTracker(t, caret)
          /\ t.abbreviation.type = "valid"

\* C10: a second change event on the same buffer and caret leaves the tracker
\* slot (range and parse result included) as the first one left it, and an
\* idle editor idle, whatever the parsers answer and whatever the flag reads.
C10_ChangeIdempotent ==
    \A e \in ChangeEvents :
    \A o1 \in AskedBy(trackers, lastPos, e.text, e.pos, enabled, syntax) :
        LET first == onDidChange(trackers, lastPos, e.text, e.pos, enabled, syntax, o1).store IN
        \A o2 \in {[css |-> NoCSSContext, html |-> NoHTMLContext],
                   PlainOracle(Len(e.text))} :
        \A en \in BOOLEAN :
            onDidChange(first, <<e.pos>>, e.text, e.pos, en, syntax, o2).store = first

\* a tracker the last change event left, which one more change event on the
\* same buffer leaves as it is
C10_Witness ==
    /\ lastPos = <<caret>>
    /\ \E t \in trackers : ~t.forced /\ t.abbreviation.type = "valid"
    /\ \A oracle \in Oracles(syntax, Len(content), caret) :
          onDidChange(trackers, lastPos, content, caret, enabled, syntax, oracle).store
              = trackers

(***************************************************************************)
(* The stop-condition evaluator on its own: any tracker record, any caret, *)
(* and the last step of the change handler applied to it                   *)
(***************************************************************************)
StopChars == {"d", ")", "\n", "\r", tabStop}

StopTexts == UNION {[1..k -> StopChars] : k \in 1..MaxLen}

AbbreviationInputs ==
    {NoAbbreviation}
    \cup {[type |-> "valid", abbr |-> a] : a \in StopTexts}
    \cup UNION {{[type |-> "error", abbr |-> a, pos |-> e] : e \in 0..Len(a)} :
                  a \in StopTexts}

TrackerInputs ==
    {[range |-> r, forced |-> f, offset |-> o, abbreviation |-> a,
      options |-> NoOptions, lastLength |-> MaxLen] :
        r \in Ranges(MaxLen), f \in BOOLEAN, o \in {0, Len(JSX_PREFIX)},
        a \in AbbreviationInputs}

InitStop ==
    /\ syntax = "html"
    /\ content = <<>>
    /\ caret \in 0..MaxLen
    /\ lastPos = <<>>
    /\ trackers \in {{t} : t \in TrackerInputs}
    /\ enabled = TRUE

\* if (tracker && shouldStopTracking(tracker, pos)) stopTracking(ed);
\* lastPos = pos
StopStep ==
    /\ lastPos = <<>>
    /\ trackers' = IF \E t \in trackers : shouldStopTracking(t, caret)
                   THEN stopTracking(trackers)
                   ELSE trackers
    /\ lastPos' = <<caret>>
    /\ UNCHANGED <<content, caret, enabled, syntax>>

NextStop == StopStep

SpecStop == InitStop /\ [][NextStop]_vars

\* C1: a forced tracker is never stopped by the evaluator: it answers false at
\* every caret position whatever the parse state (missing, valid, error, with
\* line breaks or tab stops), so the handler's stop step leaves it in place.
C1_ForcedNeverStopped ==
    \A t \in trackers :
        t.forced => \A pos \in 0..(MaxLen + 1) : ~shouldStopTracking(t, pos)

\* a forced tracker with an error parse at offset 0 over multi-line text has
\* been through the stop step and is still tracked
C1_Witness ==
    /\ lastPos = <<caret>>
    /\ \E t \in trackers :
          /\ t.forced
          /\ t.abbreviation.type = "error"
          /\ t.abbreviation.pos = 0
          /\ hasLineBreak(t.abbreviation.abbr)
          /\ t.range[2] = caret

\* C2: a non-forced tracker whose text holds a line break or the tab-stop
\* sentinel is stopped at every caret position, valid parse or error, and
\* none is left after the handler's stop step.
C2_StopOnLineBreakOrTabStop ==
    \A t \in trackers :
        (/\ ~t.forced
         /\ t.abbreviation.type # "none"
         /\ (hasLineBreak(t.abbreviation.abbr) \/ includes(t.abbreviation.abbr, tabStop)))
        => /\ \A pos \in 0..(MaxLen + 1) : shouldStopTracking(t, pos)
           /\ lastPos = <<>>

\* a non-forced tracker with a valid parse, a tab stop and no line break, away
\* from the caret, for which the evaluator answers true
C2_Witness ==
    \E t \in trackers :
        /\ ~t.forced
        /\ t.abbreviation.type = "valid"
        /\ includes(t.abbreviation.abbr, tabStop)
        /\ ~hasLineBreak(t.abbreviation.abbr)
        /\ t.range[2] # caret
        /\ shouldStopTracking(t, caret)

(***************************************************************************)
(* The typed start on its own: an idle editor, any buffer and caret, the   *)
(* previous caret one character back, and one change event                 *)
(***************************************************************************)
StartChars == {"d", "(", ")", " ", "<", "."}

StartTexts == UNION {[1..k -> StartChars] : k \in 0..(MaxLen + 1)}

InitStart ==
    /\ syntax \in Syntaxes
    /\ content \in StartTexts
    /\ caret \in 0..Len(content)
    /\ lastPos = <<caret - 1>>
    /\ trackers = {}
    /\ enabled \in BOOLEAN

StartChange ==
    /\ lastPos = <<caret - 1>>
    /\ Changed(content, caret)

NextStart == StartChange

SpecStart == InitStart /\ [][NextStart]_vars

\* the character just typed (before the caret) and the one at the caret
typedCh == IF caret >= 1 THEN content[caret] ELSE "undefined"

nextCh == IF caret < Len(content) THEN content[caret + 1] ELSE "undefined"

pairedAtCaret == typedCh \in DOMAIN pairs /\ nextCh = pairs[typedCh]

UnsupportedSyntaxes == {"markdown", "python", ""}

AllOracles(n, pos) == Oracles("css", n, pos) \cup Oracles("html", n, pos)

\* C5: in a document whose syntax is neither markup nor stylesheet the context
\* resolver returns none, the boundary detector starts nothing, and the change
\* handler starts no tracker by typing, whatever the buffer, the caret and the
\* parsers' answers.
C5_UnsupportedNeverStarts ==
    \A syn \in IF isSupported(syntax) THEN {} ELSE UnsupportedSyntaxes \cup {syntax} :
    \A oracle \in AllOracles(Len(content), caret) :
        /\ getActivationContext(content, caret, syn, oracle) = NoOptions
        /\ startAbbreviationTracking({}, content, caret, syn, oracle).ret = {}
        /\ \A en \in BOOLEAN :
              LET r == onDidChange({}, <<caret - 1>>, content, caret, en, syn, oracle) IN
              ~r.typed /\ r.store = {}

\* an unsupported document, completions enabled, right after a name character
\* was typed at a word boundary: no tracker
C5_Witness ==
    /\ ~isSupported(syntax)
    /\ enabled
    /\ caret >= 1
    /\ lastPos = <<caret>>
    /\ reWordBound(substr(content, Max(0, caret - 2), caret))
    /\ trackers = {}


\* C6 as claimed: whenever the character just typed is an opening bracket and
\* the character at the caret is its closer, the boundary detector yields a
\* span that ends at pos+1.
C6_AbsorbWheneverPaired ==
    pairedAtCaret =>
        LET span == candidateSpan(content, caret, syntax) IN
        span.start >= 0 /\ span.end = caret + 1

\* C6 amended: when the boundary detector finds a start and the character just
\* typed is an opening bracket with its closer at the caret, the span ends at
\* pos+1 and so does the tracker started on it; without the closer it ends at
\* pos; '{' never starts a span.
C6_AbsorbWhenStarted ==
    LET span == candidateSpan(content, caret, syntax) IN
    /\ span.start >= 0 =>
          /\ span.end = IF pairedAtCaret THEN caret + 1 ELSE caret
          /\ typedCh # "{"
    /\ \A oracle \in Oracles(syntax, Len(content), caret) :
          \A t \in startAbbreviationTracking({}, content, caret, syntax, oracle).ret :
              /\ t.range[1] = span.start
              /\ t.range[2] = IF pairedAtCaret THEN caret + 1 ELSE caret
    /\ \A open \in DOMAIN pairs :
          LET s == candidateSpan(<<" ", open, pairs[open]>>, 2, syntax) IN
          IF isJSX(syntax) \/ open = "{"
          THEN s.start < 0
          ELSE s = [start |-> 1, end |-> 3, offset |-> 0]

\* '(' typed at a word boundary in front of ')': the span takes the ')' in
C6_Witness ==
    /\ ~isJSX(syntax)
    /\ typedCh = "("
    /\ nextCh = ")"
    /\ candidateSpan(content, caret, syntax) =
          [start |-> caret - 1, end |-> caret + 1, offset |-> 0]
    /\ \E oracle \in Oracles(syntax, Len(content), caret) :
          \E t \in startAbbreviationTracking({}, content, caret, syntax, oracle).ret :
              t.range = <<caret - 1, caret + 1>>

\* the two characters before the caret are the JSX prefix and a character of
\* [A-Za-z.#[(]
jsxWindow ==
    /\ caret >= 2
    /\ <<content[caret - 1]>> = JSX_PREFIX
    /\ content[caret] \in Letters \cup {".", "#", "[", "("}

\* C7 as claimed: in a JSX document, prefix + start character before the caret
\* and an activation context resolved at the caret give a typed start at pos-2
\* with the prefix length as offset; any other window gives none.
C7_JsxPrefixStart ==
    isJSX(syntax) =>
        \A oracle \in Oracles(syntax, Len(content), caret) :
            LET r == startAbbreviationTracking({}, content, caret, syntax, oracle).ret IN
            /\ (jsxWindow /\ getActivationContext(content, caret, syntax, oracle) # NoOptions)
                  => /\ r # {}
                     /\ \A t \in r : t.range[1] = caret - 2 /\ t.offset = Len(JSX_PREFIX)
            /\ ~jsxWindow => r = {}

\* C7 amended: the same with a markup-typed activation context; with a
\* stylesheet-typed one (an embedded style) the JSX window starts nothing.
C7_JsxPrefixStartMarkup ==
    isJSX(syntax) =>
        \A oracle \in Oracles(syntax, Len(content), caret) :
            LET r   == startAbbreviationTracking({}, content, caret, syntax, oracle).ret
                ctx == getActivationContext(content, caret, syntax, oracle)
            IN  /\ (jsxWindow /\ ctx # NoOptions /\ ctx.type = "markup")
                      => /\ r # {}
                         /\ \A t \in r : /\ t.range[1] = caret - 2
                                         /\ t.range[2] \in {caret, caret + 1}
                                         /\ t.offset = Len(JSX_PREFIX)
                /\ (ctx # NoOptions /\ ctx.type = "stylesheet") => r = {}
                /\ ~jsxWindow => r = {}

\* a JSX document after the change event: a tracker from the prefix on
C7_Witness ==
    /\ isJSX(syntax)
    /\ lastPos = <<caret>>
    /\ jsxWindow
    /\ \E t \in trackers :
          /\ t.range = <<caret - 2, caret>>
          /\ t.offset = Len(JSX_PREFIX)
          /\ t.options.type = "markup"

\* the stylesheet context an oracle gives the resolver (none: no stylesheet)
cssOf(syn, oracle) ==
    IF isCSS(syn) THEN <<oracle.css>>
    ELSE IF isHTML(syn) THEN oracle.html.css
    ELSE <<>>

\* C8 as claimed: the scope name is the nearest ancestor's name for a property
\* value, the section marker for a selector inside another selector's body
\* (a selector with an ancestor), the global marker otherwise.
C8_ScopeAsClaimed ==
    \A oracle \in Oracles(syntax, Len(content), caret) :
        LET options == getActivationContext(content, caret, syntax, oracle)
            css     == cssOf(syntax, oracle)
        IN  (css # <<>> /\ options # NoOptions) =>
                options.context.name =
                    IF css[1].current.type = "propertyValue" /\ css[1].ancestors # <<>>
                    THEN Last(css[1].ancestors).name
                    ELSE IF css[1].current.type = "selector" /\ css[1].ancestors # <<>>
                         THEN ScopeSection
                         ELSE ScopeGlobal

\* C8 amended: the scope name is the nearest ancestor's name for a property
\* value with an ancestor, the section marker for a selector with no ancestor
\* (top level), and the global marker in every other allowed case (a selector
\* inside another rule's body, a property name, a property value without
\* ancestor).
C8_ScopeResolution ==
    \A oracle \in Oracles(syntax, Len(content), caret) :
        LET options == getActivationContext(content, caret, syntax, oracle)
            css     == cssOf(syntax, oracle)
        IN  (css # <<>> /\ options # NoOptions) =>
                /\ options.type = "stylesheet"
                /\ options.context.name =
                    IF css[1].current.type = "propertyValue" /\ css[1].ancestors # <<>>
                    THEN Last(css[1].ancestors).name
                    ELSE IF css[1].current.type = "selector" /\ css[1].ancestors = <<>>
                         THEN ScopeSection
                         ELSE ScopeGlobal

\* a stylesheet after the change event: a tracker started on the first
\* character of a top-level selector, with the section scope
C8_Witness ==
    /\ isCSS(syntax)
    /\ lastPos = <<caret>>
    /\ \E t \in trackers :
          /\ t.range = <<caret - 1, caret>>
          /\ t.options.type = "stylesheet"
          /\ t.options.context.name = ScopeSection

\* C11: the emmet.clear-marker command and the editor-destroy event leave the
\* editor without tracker from every state, a forced tracker and a valid parse
\* included, and change nothing else.
C11_ExplicitStop ==
    /\ [](clearMarker(trackers) = {} /\ onDidDestroy(trackers) = {})
    /\ [][(ClearMarker \/ DestroyEditor) =>
            /\ trackers' = {}
            /\ UNCHANGED <<content, caret, lastPos, enabled, syntax>>]_vars

\* a forced tracker with a valid parse, which the explicit stop removes
C11_Witness ==
    /\ \E t \in trackers : t.forced /\ t.abbreviation.type = "valid"
    /\ ENABLED (ClearMarker /\ trackers' = {} /\ trackers' # trackers)

\* C12 as claimed: a change event whose parser query throws starts no
\* tracker, leaves no exception to the caller and records the caret as the
\* last caret position.
C12_ParserFailureTolerated ==
    \A e \in ChangeEvents :
        queriesParser(trackers, lastPos, e.text, e.pos, enabled, syntax) =>
            LET r == onDidChangeThrows(trackers, lastPos, e.text, e.pos, enabled, syntax) IN
            /\ r.store = {}
            /\ ~r.thrown
            /\ r.lastPos = <<e.pos>>

\* C12, the part seen in the state: after a change event whose parser query
\* throws, the remembered caret is the caret of that event.
C12_CaretRecordedOnThrow ==
    [][ChangeThrows => lastPos' = <<caret'>>]_vars

\* C13: a change event at pos starts a tracker by typing only if the editor is
\* idle, the remembered caret is pos-1, and at that event the flag reads true
\* and the syntax is supported or JSX; when one of these fails an idle editor
\* stays idle; and after every change event the remembered caret is pos.
C13_TypedStartGuard ==
    /\ [](\A e \in ChangeEvents :
          \A oracle \in AskedBy(trackers, lastPos, e.text, e.pos, enabled, syntax) :
             LET r == onDidChange(trackers, lastPos, e.text, e.pos, enabled, syntax, oracle)
                 allowed == /\ lastPos = <<e.pos - 1>>
                            /\ enabled
                            /\ (isSupported(syntax) \/ isJSX(syntax))
             IN  /\ r.typed => (allowed /\ handleChange(trackers, e.text) = {})
                 /\ (trackers = {} /\ ~allowed) => r.store = {})
    /\ [][(InsertChar \/ DeleteChar \/ ChangeAgain) => lastPos' = <<caret'>>]_vars

\* an idle editor after a change event, completions switched off: the next
\* character typed on a word boundary would start a tracker with the flag on
\* and starts nothing now
C13_Witness ==
    /\ ~enabled
    /\ isSupported(syntax)
    /\ trackers = {}
    /\ lastPos = <<caret>>
    /\ \E e \in ChangeEvents :
          /\ e.pos = caret + 1
          /\ candidateSpan(e.text, e.pos, syntax).start >= 0
          /\ \E oracle \in Oracles(syntax, Len(e.text), e.pos) :
                /\ onDidChange(trackers, lastPos, e.text, e.pos, TRUE, syntax, oracle).typed
                /\ ~onDidChange(trackers, lastPos, e.text, e.pos, enabled, syntax, oracle).typed

\* C14 as claimed: a selection event leaves the tracker as it is, and after it
\* the remembered caret is the caret of that event, whatever the
\* configuration.
C14_SelectionRecordsCaret ==
    [][MoveCaret => (trackers' = trackers /\ lastPos' = <<caret'>>)]_vars

\* C14 amended: a selection event leaves the tracker, the buffer and the
\* configuration as they are; after it the remembered caret is the caret of
\* that event when completions are enabled, and is what it was when they are
\* disabled.
C14_SelectionFrame ==
    [][MoveCaret =>
          /\ trackers' = trackers
          /\ UNCHANGED <<content, enabled, syntax>>
          /\ lastPos' = IF enabled THEN <<caret'>> ELSE lastPos]_vars

\* completions disabled, a tracker in place, and the caret moved away from the
\* remembered one by a selection event
C14_Witness ==
    /\ ~enabled
    /\ trackers # {}
    /\ lastPos # <<>>
    /\ lastPos # <<caret>>
    /\ \A t \in trackers : ~t.forced /\ t.range[2] = lastPos[1]

\* C15 as claimed: no step ends with a tracker for which the stop-condition
\* evaluator, applied with the current caret, returns true.
C15_NeverTrackingWhenStopDue ==
    \A t \in trackers : ~shouldStopTracking(t, caret)

\* C15 amended: every buffer-change event, whether it starts a tracker by
\* typing or continues one, ends without a tracker for which the evaluator
\* returns true at the caret of that event; extractTracker applies no
\* evaluator and leaves the tracker it creates whatever the evaluator says.
C15_StopAppliedOnChange ==
    /\ \A e \in ChangeEvents :
       \A oracle \in AskedBy(trackers, lastPos, e.text, e.pos, enabled, syntax) :
          \A t \in onDidChange(trackers, lastPos, e.text, e.pos, enabled, syntax, oracle).store :
             ~shouldStopTracking(t, e.pos)
    /\ \A abbr \in Extracts(Len(content), caret,
                            IF isJSX(syntax) THEN Len(JSX_PREFIX) ELSE 0) \ {<<>>} :
          extractTracker(trackers, content, syntax, abbr, PlainOracle(Len(content))) # {}

\* a tracker that the next change event continues (the span is not empty) and
\* then stops, because the evaluator returns true on the continued tracker
C15_Witness ==
    /\ \E t \in trackers : ~t.forced /\ t.abbreviation.type = "valid"
    /\ \E e \in ChangeEvents :
          LET changed == handleChange(trackers, e.text) IN
          /\ changed # {}
          /\ \A t \in changed : shouldStopTracking(t, e.pos)
          /\ onDidChange(trackers, lastPos, e.text, e.pos, enabled, syntax,
                         PlainOracle(Len(e.text))).store = {}

\* the number of closing brackets at the end of a text
RECURSIVE trailingClosers(_)
trailingClosers(abbr) ==
    IF Len(abbr) > 0 /\ abbr[Len(abbr)] \in pairsEnd
    THEN 1 + trailingClosers(SubSeq(abbr, 1, Len(abbr) - 1))
    ELSE 0

\* the tracker's abbreviation text is the text of its range after the prefix
textOfRange(t) ==
    /\ t.abbreviation.type # "none"
    /\ Len(t.abbreviation.abbr) = t.range[2] - t.range[1] - t.offset

\* C16: for a non-forced tracker with an error parse and text free of line
\* breaks and tab-stop sentinels the evaluator returns true exactly when the
\* caret is the range end, or the error position is 0, or the caret is where
\* walking back from the range end over the trailing closing brackets ends
\* (never before the range start); for a valid parse it returns false.
C16_ErrorStopPositions ==
    \A t \in trackers :
        (/\ ~t.forced
         /\ textOfRange(t)
         /\ ~hasLineBreak(t.abbreviation.abbr)
         /\ ~includes(t.abbreviation.abbr, tabStop))
        => \A pos \in 0..(MaxLen + 1) :
              shouldStopTracking(t, pos) =
                 IF t.abbreviation.type = "error"
                 THEN \/ pos = t.range[2]
                      \/ t.abbreviation.pos = 0
                      \/ pos = Max(t.range[1],
                                   t.range[2] - trailingClosers(t.abbreviation.abbr))
                 ELSE FALSE

\* two-character windows: a boundary character, then a start character
BoundaryWindows ==
    {<<b, c>> : b \in {" ", ";", ">", "\"", "'"},
                c \in {"d", ".", "#", "[", "(", "!", "@"}}

\* a typed start at pos in text under a stylesheet-typed context needs a
\* window that passes the stylesheet test; without it the editor stays idle
stylesheetBound(text, pos, syn, oracle) ==
    LET ctx    == getActivationContext(text, pos, syn, oracle)
        window == substr(text, Max(0, pos - 2), pos)
        r      == startAbbreviationTracking({}, text, pos, syn, oracle).ret
    IN  (ctx # NoOptions /\ ctx.type = "stylesheet") =>
           /\ r # {} => (reStylesheetWordBound(window) /\ reWordBound(window))
           /\ ~reStylesheetWordBound(window) =>
                 onDidChange({}, <<pos - 1>>, text, pos, TRUE, syn, oracle).store = {}

\* C17: under a stylesheet-typed activation context a typed start happens
\* only if the window also passes the stylesheet boundary test; a window that
\* passes the markup test only (a start character '.', '#', '[' or '(', or a
\* boundary '>' or quote) starts nothing and the editor stays idle.
C17_StylesheetBoundary ==
    /\ \A oracle \in Oracles(syntax, Len(content), caret) :
          stylesheetBound(content, caret, syntax, oracle)
    /\ content = <<>> =>
          \A window \in BoundaryWindows :
          \A oracle \in Oracles(syntax, 2, 2) :
             stylesheetBound(window, 2, syntax, oracle)

\* a stylesheet right after a change event: the window passes the markup test
\* but not the stylesheet test, a stylesheet context is resolved, no tracker
C17_Witness ==
    /\ isCSS(syntax)
    /\ enabled
    /\ lastPos = <<caret>>
    /\ reWordBound(substr(content, Max(0, caret - 2), caret))
    /\ ~reStylesheetWordBound(substr(content, Max(0, caret - 2), caret))
    /\ getActivationContext(content, caret, syntax, PlainOracle(Len(content))) # NoOptions
    /\ trackers = {}

\* the cases in which activation is permitted at pos, read off the parsers'
\* answers
permitted(text, pos, syn, oracle) ==
    LET css == cssOf(syn, oracle) IN
    IF css # <<>>
    THEN LET current == css[1].current IN
         /\ current # NoToken
         /\ \/ current.type \in {"propertyName", "propertyValue"}
            \/ /\ current.type = "selector"
               /\ current.range[1] = pos - 1
               /\ Len(trim(firstLine(SubSeq(text, current.range[1] + 1,
                                            current.range[2])))) = 1
    ELSE isHTML(syn) /\ ~oracle.html.current

\* selector tokens around pos 1 of a three-character buffer
SelectorContexts ==
    {[css |-> [current |-> [type |-> "selector", range |-> r],
               ancestors |-> a, inline |-> FALSE],
      html |-> NoHTMLContext] :
        r \in {<<0, 1>>, <<0, 2>>, <<0, 3>>, <<1, 3>>},
        a \in {<<>>, <<[name |-> "a"]>>}}

C19_TrackerHasContext ==
    \A t \in trackers : ~t.forced => t.options # NoOptions

\* C20: a tracker started by typing is not forced; in a document that is not
\* JSX it has offset 0 and the text of its range, and it is still there when
\* the change event that started it ends only if its parse is valid and its
\* text has no line break or tab stop; whatever error the parser reports on
\* that text, the evaluator stops it, with the span ending at the caret and
\* with the closer taken in (end = pos+1).
C20_TypedTrackerSurvival ==
    \A oracle \in Oracles(syntax, Len(content), caret) :
        LET started == startAbbreviationTracking({}, content, caret, syntax, oracle).ret
            r == onDidChange({}, <<caret - 1>>, content, caret, TRUE, syntax, oracle)
        IN  \A t \in started :
               /\ ~t.forced
               /\ r.typed
               /\ ~isJSX(syntax) =>
                     LET text == substr(content, t.range[1], t.range[2]) IN
                     /\ t.offset = 0
                     /\ t.range[2] \in {caret, caret + 1}
                     /\ t.abbreviation.type # "none" => t.abbreviation.abbr = text
                     /\ r.store # {} =>
                           /\ r.store = started
                           /\ t.abbreviation.type = "valid"
                           /\ ~hasLineBreak(text)
                           /\ ~includes(text, tabStop)
                     /\ t.abbreviation.type = "error" => r.store = {}
                     /\ \A e \in 0..Len(text) :
                           shouldStopTracking(
                               [t EXCEPT !.abbreviation =
                                   [type |-> "error", abbr |-> text, pos |-> e]],
                               caret)

\* '(' was typed in front of ')' on a word boundary, a context was resolved,
\* the span took the closer in, its parse is an error away from position 0,
\* and the editor is idle when the change event ends
C20_Witness ==
    /\ ~isJSX(syntax)
    /\ enabled
    /\ lastPos = <<caret>>
    /\ pairedAtCaret
    /\ trackers = {}
    /\ \E oracle \in Oracles(syntax, Len(content), caret) :
          LET r == onDidChange({}, <<caret - 1>>, content, caret, enabled, syntax, oracle) IN
          /\ r.typed
          /\ r.store = {}
          /\ \E t \in startAbbreviationTracking({}, content, caret, syntax, oracle).ret :
                /\ t.range = <<caret - 1, caret + 1>>
                /\ t.abbreviation.type = "error"
                /\ t.abbreviation.pos > 0

====
